---------------------------- MODULE Spec2Model ----------------------------
(***************************************************************************)
(* A model of compute_optimal_circle.py: fitting rows of Lego pieces into  *)
(* a disk (FunnyCircle) and choosing the best solutions (FitCircle).       *)
(*                                                                         *)
(* Number representation.                                                  *)
(*   - A length (diameter/2, y, piece_height, a width) is an integer       *)
(*     counting 1/Unit of the program's unit, so that halves are exact.    *)
(*   - A float that math.sqrt or math.acos returns is a fixed-point        *)
(*     integer counting 1/Scale (rounded down).                            *)
(*   - An area (an error) is an integer counting 1/AreaUnit.               *)
(* The program is Python 2: piece_height/2 on an int is floor division.    *)
(***************************************************************************)
EXTENDS Integers, Sequences, FiniteSets

Unit  == 1 + 1
Kilo  == 10^3
Scale == Kilo * Kilo
AreaUnit == Unit * Unit * Scale

Abs(x) == IF x < 0 THEN -x ELSE x

(***************************************************************************)
(* Bounds of the model.                                                    *)
(***************************************************************************)
MaxDiameter == 10
MaxNegDiameter == 2
MaxHeight == 3
MaxPip == 5
MaxRows == 3
MaxStartWidth == 5
MaxLook == 4

Radius(d) == (d * Unit) \div 2

\* the longest length of the model: a radius
MaxLen == Radius(IF MaxNegDiameter > MaxDiameter THEN MaxNegDiameter
                 ELSE MaxDiameter)

\* floor(a * b / Scale) for 0 <= a, b < 2 * Scale, within TLC's integers
MulQ(a, b) ==
    LET a1 == a \div Kilo
        a0 == a % Kilo
        b1 == b \div Kilo
        b0 == b % Kilo
    IN a1 * b1 + ((a1 * b0 + a0 * b1) + ((a0 * b0) \div Kilo)) \div Kilo

(***************************************************************************)
(* math.sqrt on a length squared: floor(sqrt(n) * Scale), the schoolbook   *)
(* method, a decimal digit at a time, so that no intermediate exceeds      *)
(* TLC's integers.  The values are tabulated once.                         *)
(***************************************************************************)
IntRoot(n) == CHOOSE s \in 0..n : s * s <= n /\ (s + 1) * (s + 1) > n

\* digits more decimal digits of the root, from a root and its remainder
RECURSIVE RootDigits(_, _, _)
RootDigits(root, rem, digits) ==
    IF digits = 0 THEN root
    ELSE LET r100 == rem * 100
             d == CHOOSE d \in 0..9 :
                     /\ (20 * root + d) * d <= r100
                     /\ (d = 9 \/ (20 * root + d + 1) * (d + 1) > r100)
         IN RootDigits(10 * root + d, r100 - (20 * root + d) * d, digits - 1)

SqrtDigits(n) == LET s == IntRoot(n) IN RootDigits(s, n - s * s, 6)

SqrtTable == [n \in 0..(MaxLen * MaxLen) |-> SqrtDigits(n)]

SqrtQ(n) == SqrtTable[n]

(***************************************************************************)
(* math.acos(num/den), den # 0, |num| <= |den|: the angle times Scale.     *)
(* asin is found by bisection on a Taylor sine, on the                     *)
(* well-conditioned side: acos(a) = pi/2 - asin(a) for a <= sqrt(1-a^2),   *)
(* and asin(sqrt(1-a^2)) otherwise, so that acos(1) = 0 exactly.  The      *)
(* values are tabulated once.                                              *)
(***************************************************************************)
HalfPiQ == 1570796

SinQ(t) ==
    LET t2 == MulQ(t, t)
        t3 == MulQ(t, t2) \div 6
        t5 == MulQ(t3, t2) \div 20
        t7 == MulQ(t5, t2) \div 42
        t9 == MulQ(t7, t2) \div 72
        t11 == MulQ(t9, t2) \div 110
    IN t - t3 + t5 - t7 + t9 - t11

\* the largest t in lo..hi with SinQ(t) * den <= s   (SinQ(lo) * den <= s)
RECURSIVE AsinBisect(_, _, _, _)
AsinBisect(s, den, lo, hi) ==
    IF lo >= hi THEN lo
    ELSE LET mid == (lo + hi + 1) \div 2
         IN IF SinQ(mid) * den <= s
            THEN AsinBisect(s, den, mid, hi)
            ELSE AsinBisect(s, den, lo, mid - 1)

\* asin(s / (den * Scale)) * Scale, for an angle up to pi/4
AsinQ(s, den) == AsinBisect(s, den, 0, HalfPiQ \div 2 + 1)

\* acos(a/b) for 0 <= a <= b, b > 0
AcosUnsigned(a, b) ==
    LET c == SqrtQ(b * b - a * a)         \* sqrt(1 - (a/b)^2) * b * Scale
    IN IF a * Scale <= c THEN HalfPiQ - AsinQ(a * Scale, b)
       ELSE AsinQ(c, b)

AcosTable == [b \in 1..MaxLen |-> [a \in 0..b |-> AcosUnsigned(a, b)]]

AcosQ(num, den) ==
    LET pos == AcosTable[Abs(den)][Abs(num)]
    IN IF (num < 0) = (den < 0) \/ num = 0 THEN pos ELSE 2 * HalfPiQ - pos

(***************************************************************************)
(* class FunnyCircle.  r is self._diameter/2.0 (a length); y, h, w and     *)
(* piece_unit_width are lengths.                                           *)
(***************************************************************************)
\* UnrestrictedFit: 2 * sqrt(r^2 - (y+h)^2), a float (length times Scale)
UnrestrictedFit(r, y, h) == 2 * SqrtQ(r * r - (y + h) * (y + h))

\* math.sqrt raises ValueError on a negative argument
UnrestrictedFitRaises(r, y, h) == r * r - (y + h) * (y + h) < 0

\* uw - uw % piece_unit_width, a multiple of the pip width: back to a length
QuantizeDown(uw, pw) == (uw - (uw % (pw * Scale))) \div Scale

\* int(floor(uw_min / float(piece_unit_width)))
WidthInPips(uw_min, pw) == uw_min \div pw

\* the parity test of lines 60-61: the pip count already has the parity
ParityKept(width_in_pips, align_even_number) ==
    \/ (align_even_number /\ width_in_pips % 2 = 0)
    \/ (~align_even_number /\ width_in_pips % 2 # 0)

\* AlignedWidth without the test of line 64: a zero pip count is cut too
AlignedWidthUnguarded(uw_min, pw, align_pips, align_even_number) ==
    IF ~align_pips THEN uw_min
    ELSE IF ParityKept(WidthInPips(uw_min, pw), align_even_number) THEN uw_min
    ELSE uw_min - pw

\* lines 59-66: the width after the alignment correction
AlignedWidth(uw_min, pw, align_pips, align_even_number) ==
    LET width_in_pips == WidthInPips(uw_min, pw)
    IN IF ~align_pips THEN uw_min
       ELSE IF ParityKept(width_in_pips, align_even_number) THEN uw_min
       ELSE IF width_in_pips # 0 THEN uw_min - pw
       ELSE uw_min

\* the band between y and y+h: the expression inside abs() without w*h
SegmentArea(r, y, h) ==
    LET r2 == r * r
        yh == y + h
    IN AcosQ(y, r) * r2 - AcosQ(yh, r) * r2
         - y * SqrtQ(r2 - y * y) + yh * SqrtQ(r2 - yh * yh)

\* the else branch: everything of the disk above y
CapArea(r, y) == AcosQ(y, r) * (r * r) - y * SqrtQ(r * r - y * y)

ComputeSliceError(r, y, piece_height, piece_width) ==
    IF piece_width # 0
    THEN Abs(SegmentArea(r, y, piece_height) - piece_width * piece_height * Scale)
    ELSE CapArea(r, y)

\* y/r with r = 0.0 raises ZeroDivisionError; acos and sqrt raise ValueError
\* outside [-1, 1] and below 0
ComputeSliceErrorRaises(r, y, piece_height, piece_width) ==
    \/ r = 0
    \/ Abs(y) > Abs(r)
    \/ (piece_width # 0 /\ Abs(y + piece_height) > Abs(r))

\* TryExtra with the aligned steady step of line 104 a single pip
TryExtraOnePip(start, pw, align_pips, align_even_number) ==
    IF start
    THEN IF align_pips /\ align_even_number THEN pw + pw ELSE pw
    ELSE pw

\* TryExtra without lines 100-101: the seed step is one pip for any parity
TryExtraSeedOne(start, pw, align_pips, align_even_number) ==
    IF start THEN pw
    ELSE IF align_pips THEN 2 * pw ELSE pw

\* lines 97-106: the width the loop tries to add
TryExtra(start, pw, align_pips, align_even_number) ==
    IF start
    THEN IF align_pips /\ align_even_number THEN pw + pw ELSE pw
    ELSE IF align_pips THEN 2 * pw ELSE pw

\* line 109: the candidate is kept
Improves(out_error, error) == out_error < error

\* lines 96-115: the loop, from (current_min, best_error, start)
RECURSIVE OutsideLoop(_, _, _, _, _, _, _, _, _)
OutsideLoop(r, y, h, pw, align_pips, align_even_number, current_min, best_error, start) ==
    LET try_extra == TryExtra(start, pw, align_pips, align_even_number)
        out_error == ComputeSliceError(r, y, h, current_min + try_extra)
    IN IF Improves(out_error, best_error)
       THEN OutsideLoop(r, y, h, pw, align_pips, align_even_number,
                        current_min + try_extra, out_error, FALSE)
       ELSE current_min

ConsiderOutsidePieces(r, y, h, pw, in_best_error, in_best_width, align_pips, align_even_number) ==
    OutsideLoop(r, y, h, pw, align_pips, align_even_number,
                in_best_width, in_best_error, in_best_width = 0)

UnrestrictedFitByPieceWidth(r, y, h, pw, align_pips, align_even_number, consider_outside) ==
    LET uw == UnrestrictedFit(r, y, h)
        uw_min == AlignedWidth(QuantizeDown(uw, pw), pw,
                               align_pips, align_even_number)
    IN IF consider_outside
       THEN ConsiderOutsidePieces(r, y, h, pw,
                                  ComputeSliceError(r, y, h, uw_min), uw_min,
                                  align_pips, align_even_number)
       ELSE uw_min

\* the exceptions of lines 55-72: sqrt of a negative, uw % 0, and those of
\* ComputeSliceError (the search always evaluates one nonzero width)
UnrestrictedFitByPieceWidthRaises(r, y, h, pw, consider_outside) ==
    \/ UnrestrictedFitRaises(r, y, h)
    \/ pw = 0
    \/ (consider_outside /\ ComputeSliceErrorRaises(r, y, h, pw))

RECURSIVE SumErrors(_, _, _)
SumErrors(r, widths_of_pieces, h) ==
    IF widths_of_pieces = <<>> THEN 0
    ELSE ComputeSliceError(r, Head(widths_of_pieces)[1], h,
                           Head(widths_of_pieces)[2])
           + SumErrors(r, Tail(widths_of_pieces), h)

ComputeError(r, widths_of_pieces, h) == SumErrors(r, widths_of_pieces, h)

\* piece_height/2 in Python 2: floor division on an int, true division on
\* a float
PyHalf(h, is_int) ==
    IF is_int THEN ((h \div Unit) \div 2) * Unit ELSE h \div 2

\* lines 137-142 repeated from y on, then lines 143-145 (for h > 0)
RECURSIVE HalfRows(_, _, _, _, _, _, _, _, _)
HalfRows(r, h, pw, y, align_pips, align_even_number, consider_outside, widths, last_width) ==
    IF y + h <= r
    THEN LET w == UnrestrictedFitByPieceWidth(r, y, h, pw, align_pips,
                      align_even_number, consider_outside)
         IN HalfRows(r, h, pw, y + h, align_pips, align_even_number,
                     consider_outside, Append(widths, <<y, w>>), w)
    ELSE IF last_width # 0 THEN Append(widths, <<y, 0>>) ELSE widths

UnrestrictedFitHalf(r, h, pw, vertical_offset, align_pips, align_even_number, consider_outside) ==
    HalfRows(r, h, pw, vertical_offset, align_pips, align_even_number,
             consider_outside, <<>>, 0)


FitCircleSplitMiddle(r, h, pw, align_pips, align_even_number, consider_outside) ==
    LET widths_of_pieces == UnrestrictedFitHalf(r, h, pw, 0, align_pips,
                                align_even_number, consider_outside)
    IN [w |-> widths_of_pieces, m |-> 0,
        e |-> 2 * ComputeError(r, widths_of_pieces, h)]

\* line 166 passes piece_width, the pip width, to ComputeSliceError
MiddleError(r, half, pw, middle_piece_width) ==
    ComputeSliceError(r, 0, half, pw)

FitCircleOffsetMiddleHalfPiece(r, h, is_int, pw, align_pips, align_even_number, consider_outside) ==
    LET half == PyHalf(h, is_int)
        widths_of_pieces == UnrestrictedFitHalf(r, h, pw, half, align_pips,
                                align_even_number, consider_outside)
        middle_piece_width == UnrestrictedFitByPieceWidth(r, 0, half, pw,
                                align_pips, align_even_number, consider_outside)
    IN [w |-> widths_of_pieces, m |-> middle_piece_width,
        e |-> 2 * ComputeError(r, widths_of_pieces, h)
                + 2 * MiddleError(r, half, pw, middle_piece_width)]

ComputeErrorRaises(r, widths_of_pieces, h) ==
    \E i \in 1..Len(widths_of_pieces) :
        ComputeSliceErrorRaises(r, widths_of_pieces[i][1], h,
                                widths_of_pieces[i][2])

\* lines 162-166, after the half rows are built
MiddleRaises(r, half, pw, consider_outside) ==
    \/ UnrestrictedFitByPieceWidthRaises(r, 0, half, pw, consider_outside)
    \/ ComputeSliceErrorRaises(r, 0, half, pw)

(***************************************************************************)
(* FitCircle: the six calls of lines 255-267, in the order of the list,    *)
(* each with the flag stored beside its result.                            *)
(***************************************************************************)
Combos ==
    << [strategy |-> "split",  align_pips |-> FALSE, align_even |-> FALSE, tag |-> FALSE],
       [strategy |-> "offset", align_pips |-> FALSE, align_even |-> FALSE, tag |-> FALSE],
       [strategy |-> "split",  align_pips |-> TRUE,  align_even |-> TRUE,  tag |-> TRUE],
       [strategy |-> "offset", align_pips |-> TRUE,  align_even |-> TRUE,  tag |-> TRUE],
       [strategy |-> "split",  align_pips |-> TRUE,  align_even |-> FALSE, tag |-> TRUE],
       [strategy |-> "offset", align_pips |-> TRUE,  align_even |-> FALSE, tag |-> TRUE] >>

\* ErrorsTagged without the filter: the errors of both classes
RECURSIVE ErrorsOfAll(_, _)
ErrorsOfAll(sols, a) ==
    IF sols = <<>> THEN <<>>
    ELSE <<Head(sols).e>> \o ErrorsOfAll(Tail(sols), a)

\* [e for ((w, m, e), a) in widths_middles_errors_align if a] (or: if not a)
RECURSIVE ErrorsTagged(_, _)
ErrorsTagged(sols, a) ==
    IF sols = <<>> THEN <<>>
    ELSE IF Head(sols).a = a
         THEN <<Head(sols).e>> \o ErrorsTagged(Tail(sols), a)
         ELSE ErrorsTagged(Tail(sols), a)

\* min(enumerate(errors), key=itemgetter(1)): the first smallest, 0-based
MinEnumerate(errors) ==
    LET i == CHOOSE i \in 1..Len(errors) :
                 /\ \A j \in 1..Len(errors) : errors[i] <= errors[j]
                 /\ \A j \in 1..(i - 1) : errors[j] > errors[i]
    IN <<i - 1, errors[i]>>

Diameters == (0 - MaxNegDiameter)..MaxDiameter
Heights == {h * Unit : h \in 0..MaxHeight}
PipWidths == {p * Unit : p \in 0..MaxPip}

VARIABLES
    diameter,          \* FitCircle's diameter, in whole units
    piece_height,      \* a length
    height_is_int,     \* piece_height is a Python int (else a float)
    pip_width,         \* a length
    consider_outside,
    pc,
    solutions,         \* widths_middles_errors_align, as far as built
    combo,             \* the entry of Combos being built
    y,                 \* UnrestrictedFitHalf's locals
    widths_of_pieces,
    last_width,
    min_align,         \* (min_index_align, min_err_align)
    min_unalign,
    row_y,             \* ConsiderOutsidePieces' arguments and locals
    row_h,
    in_best_width,
    current_min,
    best_error,
    start

inputs == <<diameter, piece_height, height_is_int, pip_width, consider_outside>>
fitVars == <<solutions, combo, y, widths_of_pieces, last_width, min_align, min_unalign>>
searchVars == <<row_y, row_h, in_best_width, current_min, best_error, start>>
vars == <<inputs, pc, fitVars, searchVars>>

r == Radius(diameter)

Init ==
    /\ diameter \in Diameters
    /\ piece_height \in Heights
    /\ height_is_int \in BOOLEAN
    /\ pip_width \in PipWidths
    /\ consider_outside \in BOOLEAN
    /\ pc = "fit"
    /\ solutions = <<>>
    /\ combo = Combos[1]
    /\ y = 0
    /\ widths_of_pieces = <<>>
    /\ last_width = 0
    /\ min_align = <<>>
    /\ min_unalign = <<>>
    /\ row_y = 0 /\ row_h = 0 /\ in_best_width = 0
    /\ current_min = 0 /\ best_error = 0 /\ start = FALSE

\* the next call of the list: UnrestrictedFitHalf is entered (lines 133-135)
BeginHalf ==
    /\ pc = "fit"
    /\ Len(solutions) < Len(Combos)
    /\ combo' = Combos[Len(solutions) + 1]
    /\ y' = IF combo'.strategy = "split" THEN 0
            ELSE PyHalf(piece_height, height_is_int)
    /\ widths_of_pieces' = <<>>
    /\ last_width' = 0
    /\ pc' = "loop"
    /\ UNCHANGED <<inputs, solutions, min_align, min_unalign, searchVars>>

\* one pass of the while loop of lines 137-142
LoopBody ==
    /\ pc = "loop"
    /\ y + piece_height <= r
    \* with piece_height = 0 the loop never ends: the model stops it
    /\ (piece_height > 0 \/ Len(widths_of_pieces) < MaxRows)
    /\ IF UnrestrictedFitByPieceWidthRaises(r, y, piece_height, pip_width,
                                            consider_outside)
       THEN /\ pc' = "raised"
            /\ UNCHANGED <<y, widths_of_pieces, last_width>>
       ELSE LET w == UnrestrictedFitByPieceWidth(r, y, piece_height, pip_width,
                         combo.align_pips, combo.align_even, consider_outside)
            IN /\ last_width' = w
               /\ widths_of_pieces' = Append(widths_of_pieces, <<y, w>>)
               /\ y' = y + piece_height
               /\ pc' = "loop"
    /\ UNCHANGED <<inputs, solutions, combo, min_align, min_unalign, searchVars>>

\* the loop ends: lines 143-145
LoopExit ==
    /\ pc = "loop"
    /\ ~(y + piece_height <= r)
    /\ widths_of_pieces' = IF last_width # 0
                           THEN Append(widths_of_pieces, <<y, 0>>)
                           ELSE widths_of_pieces
    /\ pc' = "assemble"
    /\ UNCHANGED <<inputs, solutions, combo, y, last_width, min_align,
                   min_unalign, searchVars>>

\* the rest of FitCircleSplitMiddle (lines 153-154) or of
\* FitCircleOffsetMiddleHalfPiece (lines 162-167), and the list entry
Assemble ==
    /\ pc = "assemble"
    /\ LET half == PyHalf(piece_height, height_is_int)
           raises ==
               \/ ComputeErrorRaises(r, widths_of_pieces, piece_height)
               \/ /\ combo.strategy = "offset"
                  /\ MiddleRaises(r, half, pip_width, consider_outside)
       IN IF raises
          THEN /\ pc' = "raised"
               /\ UNCHANGED solutions
          ELSE LET outer == 2 * ComputeError(r, widths_of_pieces, piece_height)
                   m == IF combo.strategy = "split" THEN 0
                        ELSE UnrestrictedFitByPieceWidth(r, 0, half, pip_width,
                                 combo.align_pips, combo.align_even,
                                 consider_outside)
                   e == IF combo.strategy = "split" THEN outer
                        ELSE outer + 2 * MiddleError(r, half, pip_width, m)
               IN /\ solutions' = Append(solutions,
                         [w |-> widths_of_pieces, m |-> m, e |-> e,
                          a |-> combo.tag])
                  /\ pc' = IF Len(solutions') = Len(Combos)
                           THEN "select" ELSE "fit"
    /\ UNCHANGED <<inputs, combo, y, widths_of_pieces, last_width, min_align,
                   min_unalign, searchVars>>

\* lines 270-278
Select ==
    /\ pc = "select"
    /\ min_align' = MinEnumerate(ErrorsTagged(solutions, TRUE))
    /\ min_unalign' = MinEnumerate(ErrorsTagged(solutions, FALSE))
    /\ pc' = "done"
    /\ UNCHANGED <<inputs, solutions, combo, y, widths_of_pieces, last_width,
                   searchVars>>

Next == BeginHalf \/ LoopBody \/ LoopExit \/ Assemble \/ Select

Spec == Init /\ [][Next]_vars


(***************************************************************************)
(* ConsiderOutsidePieces on its own, one action per pass of its loop, from *)
(* any row of a disk and any starting width; in_best_error is the slice    *)
(* error of the starting width, as line 69 computes it.                    *)
(***************************************************************************)
Alignments == {Combos[1], Combos[3], Combos[5]}

InitSearch ==
    /\ diameter \in 1..MaxDiameter
    /\ pip_width \in PipWidths \ {0}
    /\ combo \in Alignments
    /\ row_y \in 0..r
    /\ row_h \in 1..r
    /\ row_y + row_h <= r
    /\ in_best_width \in 0..MaxStartWidth
    /\ current_min = in_best_width                                \* line 90
    /\ start = (in_best_width = 0)                                \* lines 91-93
    /\ best_error = ComputeSliceError(r, row_y, row_h, in_best_width)
    /\ pc = "search"
    /\ piece_height = row_h
    /\ height_is_int = FALSE
    /\ consider_outside = TRUE
    /\ solutions = <<>>
    /\ y = 0
    /\ widths_of_pieces = <<>>
    /\ last_width = 0
    /\ min_align = <<>>
    /\ min_unalign = <<>>

\* lines 97-111: the candidate is better and becomes the current width
SearchAccept ==
    /\ pc = "search"
    /\ LET try_extra == TryExtra(start, pip_width, combo.align_pips,
                                 combo.align_even)
           out_error == ComputeSliceError(r, row_y, row_h,
                                          current_min + try_extra)
       IN /\ Improves(out_error, best_error)
          /\ current_min' = current_min + try_extra
          /\ best_error' = out_error
    /\ start' = FALSE
    /\ UNCHANGED <<inputs, pc, fitVars, row_y, row_h, in_best_width>>

\* lines 112-115: the candidate is not better; current_min is returned
SearchBreak ==
    /\ pc = "search"
    /\ LET try_extra == TryExtra(start, pip_width, combo.align_pips,
                                 combo.align_even)
           out_error == ComputeSliceError(r, row_y, row_h,
                                          current_min + try_extra)
       IN ~Improves(out_error, best_error)
    /\ pc' = "returned"
    /\ UNCHANGED <<inputs, fitVars, searchVars>>

NextSearch == SearchAccept \/ SearchBreak

\* a sequential loop: a pass that can run does run
SpecSearch == InitSearch /\ [][NextSearch]_vars /\ WF_vars(NextSearch)


(***************************************************************************)
(* The properties.                                                         *)
(***************************************************************************)
ValidInput == diameter > 0 /\ piece_height > 0 /\ pip_width > 0

\* the combination the i-th entry of the list is for, stated on its own
StrategyAt(i) == IF i % 2 = 1 THEN "split" ELSE "offset"
AlignmentAt(i) == <<"unaligned", "unaligned", "even", "even", "odd", "odd">>[i]

\* the i-th combination computed in one piece, with a given consider_outside
SolutionAt(i, outside) ==
    IF StrategyAt(i) = "split"
    THEN FitCircleSplitMiddle(r, piece_height, pip_width,
             AlignmentAt(i) # "unaligned", AlignmentAt(i) = "even", outside)
    ELSE FitCircleOffsetMiddleHalfPiece(r, piece_height, height_is_int,
             pip_width, AlignmentAt(i) # "unaligned", AlignmentAt(i) = "even",
             outside)

\* C1: for each of the six combinations and every valid input, the error
\* computed with consider_outside = true is at most the error computed with
\* consider_outside = false (sentinel row included).
C1_OutsideNeverWorse ==
    \A i \in 1..Len(solutions) :
        (ValidInput /\ consider_outside)
            => solutions[i].e <= SolutionAt(i, FALSE).e

\* C2: the error of an offset-with-middle-row solution is
\* 2 * totalError(outer rows, h) + 2 * sliceError(0, h/2, middleWidth), with
\* middleWidth the middle-row width the solution returns.
C2_MiddleErrorOfMiddleWidth ==
    \A i \in 1..Len(solutions) :
        (ValidInput /\ StrategyAt(i) = "offset" /\ piece_height \div 2 <= r)
            => solutions[i].e =
                 2 * ComputeError(r, solutions[i].w, piece_height)
                 + 2 * ComputeSliceError(r, 0, piece_height \div 2,
                                         solutions[i].m)

\* C3: when the radius is smaller than pieceHeight the call does not fail,
\* every RowSequence is empty, and the split-at-equator error is
\* 2 * segmentArea(0, radius): the whole disk is uncovered.
C3_DegenerateCountsWholeDisk ==
    (ValidInput /\ r < piece_height)
        => /\ pc # "raised"
           /\ \A i \in 1..Len(solutions) :
                 /\ solutions[i].w = <<>>
                 /\ StrategyAt(i) = "split"
                       => solutions[i].e = 2 * SegmentArea(r, 0, r)

\* a width is k pips, k >= 0, and k > 0 has the parity asked for
PipsWithParity(w, even) ==
    /\ pip_width > 0
    /\ w >= 0
    /\ w % pip_width = 0
    /\ (w > 0 => ((w \div pip_width) % 2 = 0) = even)

\* C4: in every aligned solution, with consider_outside off or on, every
\* width the row-width solver produced (the rows of the half disk and the
\* middle row) is k * pipWidth, k >= 0, and k > 0 has the required parity.
C4_AlignedWidthsArePips ==
    /\ \A i \in 1..Len(solutions) :
          AlignmentAt(i) # "unaligned"
              => /\ \A j \in 1..Len(solutions[i].w) :
                       PipsWithParity(solutions[i].w[j][2],
                                      AlignmentAt(i) = "even")
                 /\ PipsWithParity(solutions[i].m, AlignmentAt(i) = "even")
    /\ (pc \in {"loop", "assemble"} /\ combo.align_pips)
          => \A j \in 1..Len(widths_of_pieces) :
                 PipsWithParity(widths_of_pieces[j][2], combo.align_even)

\* C4 happens: a finished run with consider_outside on whose aligned-odd
\* split solution has a first row narrower than the unaligned one (the
\* parity correction acted) and a positive aligned middle row.
C4_Witness ==
    /\ pc = "done"
    /\ consider_outside
    /\ solutions[5].w # <<>>
    /\ solutions[5].w[1][2] > 0
    /\ solutions[5].w[1][2] < solutions[1].w[1][2]
    /\ solutions[6].m > 0

\* the shape C5 asks of a RowSequence that starts at offset
RowShape(w, offset) ==
    LET n == Len(w)
        real(j) == w[j][1] + piece_height <= r
    IN /\ n > 0 => w[1][1] = offset
       /\ n = 0 => ~(offset + piece_height <= r)
       /\ \A j \in 2..n : w[j][1] = w[j - 1][1] + piece_height
       /\ \A j \in 1..n :
             \/ real(j)
             \/ j = n /\ j > 1 /\ w[j][2] = 0 /\ real(j - 1) /\ w[j - 1][2] # 0
       /\ (n > 0 /\ real(n))
             => w[n][2] = 0 /\ ~(w[n][1] + 2 * piece_height <= r)

\* C5: a RowSequence starts at y = 0 (split-at-equator) or pieceHeight/2
\* (offset-with-middle-row), steps by exactly pieceHeight, holds exactly the
\* rows with y + pieceHeight <= radius, and ends with one zero-width
\* sentinel row if and only if the last real row has nonzero width.
C5_RowSequenceShape ==
    \A i \in 1..Len(solutions) :
        ValidInput
            => RowShape(solutions[i].w,
                        IF StrategyAt(i) = "split" THEN 0
                        ELSE piece_height \div 2)

\* C6: sliceError(y, h, 0) is segmentArea(y, h), the band between y and
\* y + h only, for every row with y + h <= radius.
C6_ZeroWidthErrorIsBand ==
    \A j \in 1..Len(widths_of_pieces) :
        (ValidInput /\ widths_of_pieces[j][2] = 0
           /\ widths_of_pieces[j][1] + piece_height <= r)
            => ComputeSliceError(r, widths_of_pieces[j][1], piece_height, 0)
                 = SegmentArea(r, widths_of_pieces[j][1], piece_height)

Min(S) == CHOOSE m \in S : \A x \in S : m <= x

AlignedEntries == {i \in 1..Len(solutions) : solutions[i].a}
UnalignedEntries == {i \in 1..Len(solutions) : ~solutions[i].a}

\* what C7 says whatever the sizes of the two classes
SixSolutionsTwoChampions ==
    /\ Len(solutions) <= 6
    /\ \A i \in 1..Len(solutions) :
          /\ solutions[i].a = (AlignmentAt(i) # "unaligned")
          /\ LET s == SolutionAt(i, consider_outside)
             IN solutions[i].w = s.w /\ solutions[i].m = s.m
                  /\ solutions[i].e = s.e
    /\ pc = "done"
          => /\ Len(solutions) = 6
             /\ min_align[2] = Min({solutions[i].e : i \in AlignedEntries})
             /\ min_unalign[2] = Min({solutions[i].e : i \in UnalignedEntries})

\* C7 (as amended): FitCircle builds the six solutions, one for each of
\* {split, offset} x {unaligned, aligned-even, aligned-odd}, each tagged
\* aligned exactly when its alignment is not unaligned; when all six are
\* built, the best-aligned error is the minimum over the FOUR aligned
\* entries and the best-unaligned error is the minimum over the TWO
\* unaligned entries, each minimum taken over its own class only.
C7_SixSolutionsFourAndTwo ==
    /\ SixSolutionsTwoChampions
    /\ pc = "done" => /\ Cardinality(AlignedEntries) = 4
                      /\ Cardinality(UnalignedEntries) = 2

\* C7 as stated: the two minima are over three aligned and three unaligned
\* entries.
C7_ThreeAndThree ==
    /\ SixSolutionsTwoChampions
    /\ pc = "done" => /\ Cardinality(AlignedEntries) = 3
                      /\ Cardinality(UnalignedEntries) = 3

\* C7 happens: a finished run whose two champions differ and whose best
\* aligned entry is not the first aligned one.
C7_Witness ==
    /\ pc = "done"
    /\ ValidInput
    /\ min_align[2] # min_unalign[2]
    /\ min_align[1] > 0
    /\ min_unalign[2] < min_align[2]

\* C8: a call with diameter <= 0, pieceHeight <= 0 or pipWidth <= 0 is
\* rejected before any geometric computation: no row is computed, no
\* solution is produced, the row loop is not started.
C8_InvalidInputRejected ==
    ~ValidInput
        => /\ widths_of_pieces = <<>>
           /\ solutions = <<>>
           /\ pc \notin {"select", "done"}

\* the step C9 allows from the current width: one pip when unaligned or on
\* the seed step with odd parity, two pips otherwise
AllowedStep ==
    IF ~combo.align_pips THEN pip_width
    ELSE IF in_best_width = 0 /\ current_min = 0 /\ ~combo.align_even
         THEN pip_width
         ELSE 2 * pip_width

\* C9: the outside-extension search ends after finitely many passes, the
\* width it holds is never below the starting width, every accepted pass
\* adds exactly the allowed step, and no pass removes width.
C9_SearchEndsAndOnlyWidens ==
    /\ <>(pc = "returned")
    /\ [](current_min >= in_best_width)
    /\ [][/\ pc' = "search" => current_min' = current_min + AllowedStep
          /\ pc' = "returned" => current_min' = current_min]_vars

\* C9 happens: a search from a positive aligned width that has returned
\* after accepting more than one pass.
C9_Witness ==
    /\ pc = "returned"
    /\ combo.align_pips
    /\ in_best_width > 0
    /\ current_min >= in_best_width + 4 * pip_width

\* the widths the step rule reaches from the starting width W:
\* W, W + seed, W + seed + k * steady
Candidates ==
    LET steady == IF combo.align_pips THEN 2 * pip_width ELSE pip_width
        seed == IF in_best_width = 0 /\ combo.align_pips /\ ~combo.align_even
                THEN pip_width ELSE steady
    IN {in_best_width}
         \cup {in_best_width + seed + k * steady : k \in 0..MaxLook}

\* C10: the width the search returns has a slice error less than or equal
\* to that of every width the step rule could reach from the starting
\* width: stopping at the first pass that does not improve misses nothing.
C10_GreedyMissesNothing ==
    pc = "returned"
        => \A w \in Candidates :
               ComputeSliceError(r, row_y, row_h, current_min)
                 <= ComputeSliceError(r, row_y, row_h, w)

\* C10 happens: a search from width 0 that took the seed step and more,
\* and stopped before a wider candidate that is strictly worse.
C10_Witness ==
    /\ pc = "returned"
    /\ in_best_width = 0
    /\ current_min > pip_width
    /\ \E w \in Candidates :
          /\ w > current_min
          /\ ComputeSliceError(r, row_y, row_h, current_min)
               < ComputeSliceError(r, row_y, row_h, w)

=============================================================================
